---- MODULE Spec2Model ----
(***************************************************************************)
(* AndroidShellHolder (shell/platform/android/android_shell_holder.cc):    *)
(* the orchestrator that owns the thread-exit key, the ThreadHost with its *)
(* UI, GPU and IO workers, and the Shell (EngineInstance).                  *)
(*                                                                         *)
(* The constructor and the destructor are sequences of statements that run *)
(* on their caller's thread while the worker threads drain their queues;   *)
(* every statement is one action.  Public operations are one action each.  *)
(* ThreadHost, the task queues, Shell and the weak handles are             *)
(* collaborators whose code is not part of the translation unit; they are  *)
(* modelled at their interface.                                            *)
(***************************************************************************)
EXTENDS Integers, Sequences, FiniteSets, TLC

\* ---------------------------------------------------------------- bounds
MaxCalls == 2        \* public operations called on one orchestrator

\* ---------------------------------------------------------------- values
Workers == {"UI", "GPU", "IO"}
Queues == {"Platform", "UI", "GPU", "IO"}
Configs == {"cfgA", "cfgB"}
MetricsValues == {"m1"}
Packets == {"p1"}
ScreenshotTypes == {"SkiaPicture", "CompressedImage"}
ErrorKinds == {"gpu_priority", "ui_priority", "launch"}
ScreenshotCallers == {"Platform", "GPU"}
CreateOutcomes == {"ok", "unusable_platform_view", "unusable_rasterizer"}

\* orchestrators alive in one process, and the keys the process can hand out
Holders == {"h1", "h2"}
KeyIds == {"k1", "k2"}

\* setpriority levels requested by the tuning tasks
GpuPrimaryPriority == 0 - 5
GpuFallbackPriority == 0 - 2
UiPriority == 0 - 1

VARIABLES
  pc,             \* statement the constructor/destructor is at, or "live"
  dtorThread,     \* thread executing the destructor ("none" before)
  abortAt,        \* which check aborted the process ("none" if none)
  dcheckOn,       \* FXL_DCHECK is active in this build: "on", "off", or
                  \* "unknown" while no assertion has depended on it
  is_valid,       \* is_valid_
  shell,          \* shell_: "null" or "alive"
  engineAlive,    \* the Engine owned by the Shell exists
  pvAlive,        \* the PlatformViewAndroid object exists
  pvFlag,         \* control block of the platform view's weak handles
  platform_view,  \* platform_view_: "null" or "pv"
  key,            \* thread_destruct_key_: "none", "created", "deleted"
  keyCreates,     \* number of pthread_key_create calls
  thread,         \* worker state: "notstarted", "running", "exited"
  queue,          \* task queue of each runner
  postLog,        \* tasks the orchestrator posted to each queue, in order
  tls,            \* value of the key's slot in each worker
  detachLog,      \* threads on which DetachFromVM ran, in order
  prioLog,        \* setpriority requests made on each worker
  errLog,         \* number of FXL_LOG(ERROR) messages of each kind
  engineLog,      \* operations that reached the Engine
  shotCalls,      \* number of Shell::Screenshot calls
  lastShot,       \* the Shell::Screenshot call made by the last public call
  lastCall,       \* last public operation called and what it returned
  calls,          \* number of public operations called
  handle,         \* weak handle a reader got from GetPlatformView
  createCalls,    \* number of Shell::Create calls
  pvCallbacks,    \* invocations of on_create_platform_view
  rastCallbacks   \* invocations of on_create_rasterizer

\* Two orchestrators in one process, as far as the thread-exit key goes
VARIABLES
  keyTable,       \* pthread keys allocated in the process
  hpc,            \* statement each orchestrator is at
  hkey,           \* thread_destruct_key_ of each orchestrator
  hthread,        \* state of each orchestrator's workers
  hqueue,         \* task queue of each orchestrator's workers
  hslot,          \* value each worker holds under each key
  hdetach         \* DetachFromVM calls on each worker

shellVars == <<pc, dtorThread, abortAt, dcheckOn, is_valid, shell,
               engineAlive, pvAlive, pvFlag, platform_view, key, keyCreates,
               thread, queue, postLog, tls, detachLog, prioLog, errLog,
               engineLog, shotCalls, lastShot, lastCall, calls, handle,
               createCalls, pvCallbacks, rastCallbacks>>

holderVars == <<keyTable, hpc, hkey, hthread, hqueue, hslot, hdetach>>

vars == <<shellVars, holderVars>>

\* ------------------------------------------------------------- helpers
NoResult == [data |-> "-", size |-> 0]
EmptyScreenshot == [data |-> "null", size |-> 0]
ShellScreenshotResults == {[data |-> "image", size |-> 1], EmptyScreenshot}
NoShot == [type |-> "-", base64 |-> FALSE, thread |-> "-", result |-> NoResult]
NoCall == [op |-> "-", caller |-> "-", arg |-> "-", type |-> "-",
           base64 |-> FALSE, result |-> NoResult]

Task(kind, arg, id) == [kind |-> kind, arg |-> arg, id |-> id]

JniExitTask == Task("jni_exit", "-", 0)
GpuPriorityTask == Task("gpu_priority", "-", 0)
UiPriorityTask == Task("ui_priority", "-", 0)
TerminateTask == Task("terminate", "-", 0)

\* variant: the cleanup tasks are posted after the tuning tasks
CtorOrder_ExitTasksLast == <<"key_create", "thread_host", "shell_create",
                             "check_valid", "post_priority_gpu",
                             "post_priority_ui", "post_exit_ui",
                             "post_exit_gpu", "live">>

\* statement order of the constructor
CtorOrder == <<"key_create", "thread_host", "post_exit_ui", "post_exit_gpu",
               "shell_create", "check_valid", "post_priority_gpu",
               "post_priority_ui", "live">>

\* statement order of the destructor
DtorOrder_KeyFirst == <<"key_delete", "shell_reset", "thread_host_reset",
                        "thread_host_join", "destroyed">>

DtorOrder_NoShellReset == <<"thread_host_reset", "thread_host_join",
                            "key_delete", "destroyed">>

DtorOrder == <<"shell_reset", "thread_host_reset", "thread_host_join",
               "key_delete", "destroyed">>

IndexOf(order, p) == CHOOSE i \in 1 .. Len(order) : order[i] = p
After(order, p) == order[IndexOf(order, p) + 1]

InCtor == \E i \in 1 .. (Len(CtorOrder) - 1) : CtorOrder[i] = pc
InDtor == \E i \in 1 .. (Len(DtorOrder) - 1) : DtorOrder[i] = pc

IsValid == is_valid

\* fml::WeakPtr::operator bool for the platform view handle h
HandleValid(h) == h = "pv" /\ pvFlag

\* what a holder of handle h gets when it re-validates h and uses the target
\* at this moment: the component, nothing, or a destroyed component
DerefOutcome(h) ==
  IF HandleValid(h) THEN (IF pvAlive THEN "live" ELSE "stale") ELSE "empty"

LogError(m) == [errLog EXCEPT ![m] = @ + 1]

\* TaskRunner::PostTask
PostTask(q, t) ==
  /\ queue' = [queue EXCEPT ![q] = Append(@, t)]
  /\ postLog' = [postLog EXCEPT ![q] = Append(@, t)]

\* the builds that agree with what has been observed so far
Builds == IF dcheckOn = "unknown" THEN {"on", "off"} ELSE {dcheckOn}

Abort(where) ==
  /\ pc' = "aborted"
  /\ abortAt' = where

\* ---------------------------------------------------------------- Init
Init ==
  /\ pc = CtorOrder[1]
  /\ dtorThread = "none"
  /\ abortAt = "none"
  /\ dcheckOn = "unknown"
  /\ is_valid = FALSE
  /\ shell = "null"
  /\ engineAlive = FALSE
  /\ pvAlive = FALSE
  /\ pvFlag = FALSE
  /\ platform_view = "null"
  /\ key = "none"
  /\ keyCreates = 0
  /\ thread = [t \in Workers |-> "notstarted"]
  /\ queue = [q \in Queues |-> <<>>]
  /\ postLog = [q \in Queues |-> <<>>]
  /\ tls = [t \in Workers |-> 0]
  /\ detachLog = <<>>
  /\ prioLog = [t \in Workers |-> <<>>]
  /\ errLog = [m \in ErrorKinds |-> 0]
  /\ engineLog = <<>>
  /\ shotCalls = 0
  /\ lastShot = NoShot
  /\ lastCall = NoCall
  /\ calls = 0
  /\ handle = "none"
  /\ createCalls = 0
  /\ pvCallbacks = 0
  /\ rastCallbacks = 0
  /\ keyTable = {}
  /\ hpc = [h \in Holders |-> "key_create"]
  /\ hkey = [h \in Holders |-> "none"]
  /\ hthread = [h \in Holders |-> [t \in Workers |-> "notstarted"]]
  /\ hqueue = [h \in Holders |-> [t \in Workers |-> <<>>]]
  /\ hslot = [h \in Holders |-> [t \in Workers |-> [k \in KeyIds |-> 0]]]
  /\ hdetach = [h \in Holders |-> [t \in Workers |-> 0]]

\* --------------------------------------------------------- constructor
\* FXL_CHECK(pthread_key_create(&thread_destruct_key_, ...) == 0)
CtorKeyCreate ==
  /\ pc = "key_create"
  /\ \E ok \in BOOLEAN :
       IF ok
         THEN /\ key' = "created"
              /\ keyCreates' = keyCreates + 1
              /\ pc' = After(CtorOrder, pc)
              /\ UNCHANGED abortAt
         ELSE /\ Abort("key_create")
              /\ UNCHANGED <<key, keyCreates>>
  /\ UNCHANGED <<dtorThread, dcheckOn, is_valid, shell, engineAlive, pvAlive,
                 pvFlag, platform_view, thread, queue, postLog, tls,
                 detachLog, prioLog, errLog, engineLog, shotCalls, lastShot,
                 lastCall, calls, handle, createCalls, pvCallbacks,
                 rastCallbacks>>
  /\ UNCHANGED holderVars

\* variant: the ThreadHost is asked for the UI and GPU roles only
CtorThreadHost_NoIoThread ==
  /\ pc = "thread_host"
  /\ thread' = [t \in Workers |->
                  IF t = "IO" THEN "notstarted" ELSE "running"]
  /\ pc' = After(CtorOrder, pc)
  /\ UNCHANGED <<dtorThread, abortAt, dcheckOn, is_valid, shell, engineAlive,
                 pvAlive, pvFlag, platform_view, key, keyCreates, queue,
                 postLog, tls, detachLog, prioLog, errLog, engineLog,
                 shotCalls, lastShot, lastCall, calls, handle,
                 createCalls, pvCallbacks, rastCallbacks>>
  /\ UNCHANGED holderVars

\* thread_host_ = {label, UI | GPU | IO}: every worker starts its loop
CtorThreadHost ==
  /\ pc = "thread_host"
  /\ thread' = [t \in Workers |-> "running"]
  /\ pc' = After(CtorOrder, pc)
  /\ UNCHANGED <<dtorThread, abortAt, dcheckOn, is_valid, shell, engineAlive,
                 pvAlive, pvFlag, platform_view, key, keyCreates, queue,
                 postLog, tls, detachLog, prioLog, errLog, engineLog,
                 shotCalls, lastShot, lastCall, calls, handle,
                 createCalls, pvCallbacks, rastCallbacks>>
  /\ UNCHANGED holderVars

\* variant: the cleanup task goes to the other runner
CtorPostExitUI_ToGpuRunner ==
  /\ pc = "post_exit_ui"
  /\ PostTask("GPU", JniExitTask)
  /\ pc' = After(CtorOrder, pc)
  /\ UNCHANGED <<dtorThread, abortAt, dcheckOn, is_valid, shell, engineAlive,
                 pvAlive, pvFlag, platform_view, key, keyCreates, thread,
                 tls, detachLog, prioLog, errLog, engineLog, shotCalls,
                 lastShot, lastCall, calls, handle, createCalls,
                 pvCallbacks, rastCallbacks>>
  /\ UNCHANGED holderVars

\* thread_host_.ui_thread->GetTaskRunner()->PostTask(jni_exit_task)
CtorPostExitUI ==
  /\ pc = "post_exit_ui"
  /\ PostTask("UI", JniExitTask)
  /\ pc' = After(CtorOrder, pc)
  /\ UNCHANGED <<dtorThread, abortAt, dcheckOn, is_valid, shell, engineAlive,
                 pvAlive, pvFlag, platform_view, key, keyCreates, thread,
                 tls, detachLog, prioLog, errLog, engineLog, shotCalls,
                 lastShot, lastCall, calls, handle, createCalls,
                 pvCallbacks, rastCallbacks>>
  /\ UNCHANGED holderVars

\* variant: the cleanup task goes to the other runner
CtorPostExitGPU_ToUiRunner ==
  /\ pc = "post_exit_gpu"
  /\ PostTask("UI", JniExitTask)
  /\ pc' = After(CtorOrder, pc)
  /\ UNCHANGED <<dtorThread, abortAt, dcheckOn, is_valid, shell, engineAlive,
                 pvAlive, pvFlag, platform_view, key, keyCreates, thread,
                 tls, detachLog, prioLog, errLog, engineLog, shotCalls,
                 lastShot, lastCall, calls, handle, createCalls,
                 pvCallbacks, rastCallbacks>>
  /\ UNCHANGED holderVars

\* thread_host_.gpu_thread->GetTaskRunner()->PostTask(jni_exit_task)
CtorPostExitGPU ==
  /\ pc = "post_exit_gpu"
  /\ PostTask("GPU", JniExitTask)
  /\ pc' = After(CtorOrder, pc)
  /\ UNCHANGED <<dtorThread, abortAt, dcheckOn, is_valid, shell, engineAlive,
                 pvAlive, pvFlag, platform_view, key, keyCreates, thread,
                 tls, detachLog, prioLog, errLog, engineLog, shotCalls,
                 lastShot, lastCall, calls, handle, createCalls,
                 pvCallbacks, rastCallbacks>>
  /\ UNCHANGED holderVars

\* Shell::Create under the factory protocol: each callback is invoked once
\* during assembly; a component that is not usable fails the assembly, and a
\* Shell that is not returned destroys what was built for it
ShellCreate(outcome) ==
  /\ pvCallbacks' = pvCallbacks + 1
  /\ rastCallbacks' = rastCallbacks + 1
  /\ engineAlive' = (outcome = "ok")
  /\ pvAlive' = (outcome = "ok")
  /\ pvFlag' = (outcome = "ok")

\* variant: the handle the callback captured is not stored in the member
CtorShellCreate_HandleNotStored ==
  /\ pc = "shell_create"
  /\ \E outcome \in CreateOutcomes :
       /\ ShellCreate(outcome)
       /\ shell' = IF outcome = "ok" THEN "alive" ELSE "null"
  /\ platform_view' = "null"
  /\ createCalls' = createCalls + 1
  /\ pc' = After(CtorOrder, pc)
  /\ UNCHANGED <<dtorThread, abortAt, dcheckOn, is_valid, key, keyCreates,
                 thread, queue, postLog, tls, detachLog, prioLog, errLog,
                 engineLog, shotCalls, lastShot, lastCall, calls, handle>>
  /\ UNCHANGED holderVars

\* shell_ = Shell::Create(task_runners, settings_, on_create_platform_view,
\* on_create_rasterizer); platform_view_ = weak_platform_view.
\* on_create_platform_view makes the PlatformViewAndroid and stores its weak
\* handle in the local weak_platform_view, which stays empty if the callback
\* does not run.
CtorShellCreate ==
  /\ pc = "shell_create"
  /\ \E outcome \in CreateOutcomes :
       /\ ShellCreate(outcome)
       /\ shell' = IF outcome = "ok" THEN "alive" ELSE "null"
  /\ platform_view' = IF pvCallbacks' > pvCallbacks THEN "pv" ELSE "null"
  /\ createCalls' = createCalls + 1
  /\ pc' = After(CtorOrder, pc)
  /\ UNCHANGED <<dtorThread, abortAt, dcheckOn, is_valid, key, keyCreates,
                 thread, queue, postLog, tls, detachLog, prioLog, errLog,
                 engineLog, shotCalls, lastShot, lastCall, calls, handle>>
  /\ UNCHANGED holderVars

\* FXL_DCHECK(platform_view_); is_valid_ = shell_ != nullptr;
CtorCheckValid ==
  /\ pc = "check_valid"
  /\ IF HandleValid(platform_view)
       THEN /\ is_valid' = (shell # "null")
            /\ pc' = After(CtorOrder, pc)
            /\ UNCHANGED <<abortAt, dcheckOn>>
       ELSE \E build \in Builds :
              /\ dcheckOn' = build
              /\ IF build = "on"
                   THEN /\ Abort("ctor_dcheck")
                        /\ UNCHANGED is_valid
                   ELSE /\ is_valid' = (shell # "null")
                        /\ pc' = After(CtorOrder, pc)
                        /\ UNCHANGED abortAt
  /\ UNCHANGED <<dtorThread, shell, engineAlive, pvAlive, pvFlag,
                 platform_view, key, keyCreates, thread, queue, postLog, tls,
                 detachLog, prioLog, errLog, engineLog, shotCalls, lastShot,
                 lastCall, calls, handle, createCalls, pvCallbacks,
                 rastCallbacks>>
  /\ UNCHANGED holderVars

\* if (is_valid_) task_runners.GetGPUTaskRunner()->PostTask(...)
CtorPostPriorityGPU ==
  /\ pc = "post_priority_gpu"
  /\ IF is_valid
       THEN PostTask("GPU", GpuPriorityTask)
       ELSE UNCHANGED <<queue, postLog>>
  /\ pc' = After(CtorOrder, pc)
  /\ UNCHANGED <<dtorThread, abortAt, dcheckOn, is_valid, shell, engineAlive,
                 pvAlive, pvFlag, platform_view, key, keyCreates, thread,
                 tls, detachLog, prioLog, errLog, engineLog, shotCalls,
                 lastShot, lastCall, calls, handle, createCalls,
                 pvCallbacks, rastCallbacks>>
  /\ UNCHANGED holderVars

\* variant: the UI tuning task is posted whether or not the Shell exists
CtorPostPriorityUI_Unconditional ==
  /\ pc = "post_priority_ui"
  /\ PostTask("UI", UiPriorityTask)
  /\ pc' = After(CtorOrder, pc)
  /\ UNCHANGED <<dtorThread, abortAt, dcheckOn, is_valid, shell, engineAlive,
                 pvAlive, pvFlag, platform_view, key, keyCreates, thread,
                 tls, detachLog, prioLog, errLog, engineLog, shotCalls,
                 lastShot, lastCall, calls, handle, createCalls,
                 pvCallbacks, rastCallbacks>>
  /\ UNCHANGED holderVars

\* if (is_valid_) task_runners.GetUITaskRunner()->PostTask(...)
CtorPostPriorityUI ==
  /\ pc = "post_priority_ui"
  /\ IF is_valid
       THEN PostTask("UI", UiPriorityTask)
       ELSE UNCHANGED <<queue, postLog>>
  /\ pc' = After(CtorOrder, pc)
  /\ UNCHANGED <<dtorThread, abortAt, dcheckOn, is_valid, shell, engineAlive,
                 pvAlive, pvFlag, platform_view, key, keyCreates, thread,
                 tls, detachLog, prioLog, errLog, engineLog, shotCalls,
                 lastShot, lastCall, calls, handle, createCalls,
                 pvCallbacks, rastCallbacks>>
  /\ UNCHANGED holderVars

\* --------------------------------------------------- public operations
CanCall == pc = "live" /\ calls < MaxCalls

Called(op, arg, result) ==
  /\ calls' = calls + 1
  /\ lastCall' = [op |-> op, caller |-> "Platform", arg |-> arg,
                  type |-> "-", base64 |-> FALSE, result |-> result]
  /\ lastShot' = NoShot

\* a thread that can be executing a call into the orchestrator
CanBeCaller(th) == IF th \in Workers THEN thread[th] = "running" ELSE TRUE

\* AndroidShellHolder::Launch
Launch_NoValidCheck(config) ==
  /\ CanCall
  /\ PostTask("UI", Task("launch", config, calls + 1))
  /\ Called("Launch", config, NoResult)
  /\ UNCHANGED <<pc, dtorThread, abortAt, dcheckOn, is_valid, shell,
                 engineAlive, pvAlive, pvFlag, platform_view, key, keyCreates,
                 thread, tls, detachLog, prioLog, errLog, engineLog,
                 shotCalls, handle, createCalls,
                 pvCallbacks, rastCallbacks>>
  /\ UNCHANGED holderVars

Launch_ToGpuQueue(config) ==
  /\ CanCall
  /\ IF ~IsValid
       THEN UNCHANGED <<queue, postLog>>
       ELSE PostTask("GPU", Task("launch", config, calls + 1))
  /\ Called("Launch", config, NoResult)
  /\ UNCHANGED <<pc, dtorThread, abortAt, dcheckOn, is_valid, shell,
                 engineAlive, pvAlive, pvFlag, platform_view, key, keyCreates,
                 thread, tls, detachLog, prioLog, errLog, engineLog,
                 shotCalls, handle, createCalls,
                 pvCallbacks, rastCallbacks>>
  /\ UNCHANGED holderVars

Launch(config) ==
  /\ CanCall
  /\ IF ~IsValid
       THEN UNCHANGED <<queue, postLog>>
       ELSE PostTask("UI", Task("launch", config, calls + 1))
  /\ Called("Launch", config, NoResult)
  /\ UNCHANGED <<pc, dtorThread, abortAt, dcheckOn, is_valid, shell,
                 engineAlive, pvAlive, pvFlag, platform_view, key, keyCreates,
                 thread, tls, detachLog, prioLog, errLog, engineLog,
                 shotCalls, handle, createCalls,
                 pvCallbacks, rastCallbacks>>
  /\ UNCHANGED holderVars

\* variant: the engine is updated on the calling thread instead of by a
\* posted task
SetViewportMetrics_RunsInline(metrics) ==
  /\ CanCall
  /\ IF ~IsValid \/ ~engineAlive
       THEN UNCHANGED engineLog
       ELSE engineLog' = Append(engineLog,
                           [op |-> "SetViewportMetrics", arg |-> metrics,
                            id |-> calls + 1, thread |-> "Platform"])
  /\ Called("SetViewportMetrics", metrics, NoResult)
  /\ UNCHANGED <<pc, dtorThread, abortAt, dcheckOn, is_valid, shell,
                 engineAlive, pvAlive, pvFlag, platform_view, key, keyCreates,
                 thread, queue, postLog, tls, detachLog, prioLog, errLog,
                 shotCalls, handle, createCalls, pvCallbacks, rastCallbacks>>
  /\ UNCHANGED holderVars

\* AndroidShellHolder::SetViewportMetrics
SetViewportMetrics(metrics) ==
  /\ CanCall
  /\ IF ~IsValid
       THEN UNCHANGED <<queue, postLog>>
       ELSE PostTask("UI", Task("metrics", metrics, calls + 1))
  /\ Called("SetViewportMetrics", metrics, NoResult)
  /\ UNCHANGED <<pc, dtorThread, abortAt, dcheckOn, is_valid, shell,
                 engineAlive, pvAlive, pvFlag, platform_view, key, keyCreates,
                 thread, tls, detachLog, prioLog, errLog, engineLog,
                 shotCalls, handle, createCalls,
                 pvCallbacks, rastCallbacks>>
  /\ UNCHANGED holderVars

\* variant: the packet task is posted to the GPU runner as well
DispatchPointerDataPacket_AlsoToGpuQueue(packet) ==
  /\ CanCall
  /\ IF ~IsValid
       THEN UNCHANGED <<queue, postLog>>
       ELSE /\ queue' = [queue EXCEPT
                           !["UI"] = Append(@, Task("pointer", packet, calls + 1)),
                           !["GPU"] = Append(@, Task("pointer", packet, calls + 1))]
            /\ postLog' = [postLog EXCEPT
                             !["UI"] = Append(@, Task("pointer", packet, calls + 1)),
                             !["GPU"] = Append(@, Task("pointer", packet, calls + 1))]
  /\ Called("DispatchPointerDataPacket", packet, NoResult)
  /\ UNCHANGED <<pc, dtorThread, abortAt, dcheckOn, is_valid, shell,
                 engineAlive, pvAlive, pvFlag, platform_view, key, keyCreates,
                 thread, tls, detachLog, prioLog, errLog, engineLog,
                 shotCalls, handle, createCalls,
                 pvCallbacks, rastCallbacks>>
  /\ UNCHANGED holderVars

\* AndroidShellHolder::DispatchPointerDataPacket
DispatchPointerDataPacket(packet) ==
  /\ CanCall
  /\ IF ~IsValid
       THEN UNCHANGED <<queue, postLog>>
       ELSE PostTask("UI", Task("pointer", packet, calls + 1))
  /\ Called("DispatchPointerDataPacket", packet, NoResult)
  /\ UNCHANGED <<pc, dtorThread, abortAt, dcheckOn, is_valid, shell,
                 engineAlive, pvAlive, pvFlag, platform_view, key, keyCreates,
                 thread, tls, detachLog, prioLog, errLog, engineLog,
                 shotCalls, handle, createCalls,
                 pvCallbacks, rastCallbacks>>
  /\ UNCHANGED holderVars

\* AndroidShellHolder::Screenshot
Screenshot_SwapsFlag(type, base64_encode, caller) ==
  /\ CanCall
  /\ CanBeCaller(caller)
  /\ calls' = calls + 1
  /\ IF ~IsValid
       THEN /\ lastCall' = [op |-> "Screenshot", caller |-> caller, arg |-> "-",
                            type |-> type, base64 |-> base64_encode,
                            result |-> EmptyScreenshot]
            /\ lastShot' = NoShot
            /\ UNCHANGED shotCalls
       ELSE \E r \in ShellScreenshotResults :
              /\ shotCalls' = shotCalls + 1
              /\ lastShot' = [type |-> type, base64 |-> ~base64_encode,
                              thread |-> caller, result |-> r]
              /\ lastCall' = [op |-> "Screenshot", caller |-> caller, arg |-> "-",
                              type |-> type, base64 |-> base64_encode,
                              result |-> r]
  /\ UNCHANGED <<pc, dtorThread, abortAt, dcheckOn, is_valid, shell,
                 engineAlive, pvAlive, pvFlag, platform_view, key, keyCreates,
                 thread, queue, postLog, tls, detachLog, prioLog, errLog,
                 engineLog, handle, createCalls,
                 pvCallbacks, rastCallbacks>>
  /\ UNCHANGED holderVars

Screenshot(type, base64_encode, caller) ==
  /\ CanCall
  /\ CanBeCaller(caller)
  /\ calls' = calls + 1
  /\ IF ~IsValid
       THEN /\ lastCall' = [op |-> "Screenshot", caller |-> caller, arg |-> "-",
                            type |-> type, base64 |-> base64_encode,
                            result |-> EmptyScreenshot]
            /\ lastShot' = NoShot
            /\ UNCHANGED shotCalls
       ELSE \E r \in ShellScreenshotResults :
              /\ shotCalls' = shotCalls + 1
              /\ lastShot' = [type |-> type, base64 |-> base64_encode,
                              thread |-> caller, result |-> r]
              /\ lastCall' = [op |-> "Screenshot", caller |-> caller, arg |-> "-",
                              type |-> type, base64 |-> base64_encode,
                              result |-> r]
  /\ UNCHANGED <<pc, dtorThread, abortAt, dcheckOn, is_valid, shell,
                 engineAlive, pvAlive, pvFlag, platform_view, key, keyCreates,
                 thread, queue, postLog, tls, detachLog, prioLog, errLog,
                 engineLog, handle, createCalls,
                 pvCallbacks, rastCallbacks>>
  /\ UNCHANGED holderVars

\* AndroidShellHolder::GetPlatformView
GetPlatformView ==
  /\ CanCall
  /\ IF HandleValid(platform_view)
       THEN /\ handle' = platform_view
            /\ Called("GetPlatformView", "-", NoResult)
            /\ UNCHANGED <<pc, abortAt, dcheckOn>>
       ELSE \E build \in Builds :
              /\ dcheckOn' = build
              /\ IF build = "on"
                   THEN /\ Abort("get_platform_view")
                        /\ UNCHANGED <<handle, calls, lastCall, lastShot>>
                   ELSE /\ handle' = platform_view
                        /\ Called("GetPlatformView", "-", NoResult)
                        /\ UNCHANGED <<pc, abortAt>>
  /\ UNCHANGED <<dtorThread, is_valid, shell, engineAlive, pvAlive, pvFlag,
                 platform_view, key, keyCreates, thread, queue, postLog, tls,
                 detachLog, prioLog, errLog, engineLog, shotCalls,
                 createCalls, pvCallbacks, rastCallbacks>>
  /\ UNCHANGED holderVars

\* AndroidShellHolder::IsValid, called by the host
QueryIsValid ==
  /\ CanCall
  /\ Called("IsValid", "-",
            [data |-> IF IsValid THEN "true" ELSE "false", size |-> 0])
  /\ UNCHANGED <<pc, dtorThread, abortAt, dcheckOn, is_valid, shell,
                 engineAlive, pvAlive, pvFlag, platform_view, key, keyCreates,
                 thread, queue, postLog, tls, detachLog, prioLog, errLog,
                 engineLog, shotCalls, handle,
                 createCalls, pvCallbacks, rastCallbacks>>
  /\ UNCHANGED holderVars

\* AndroidShellHolder::GetSettings
GetSettings ==
  /\ CanCall
  /\ Called("GetSettings", "-", NoResult)
  /\ UNCHANGED <<pc, dtorThread, abortAt, dcheckOn, is_valid, shell,
                 engineAlive, pvAlive, pvFlag, platform_view, key, keyCreates,
                 thread, queue, postLog, tls, detachLog, prioLog, errLog,
                 engineLog, shotCalls, handle, createCalls, pvCallbacks,
                 rastCallbacks>>
  /\ UNCHANGED holderVars

\* ------------------------------------------------------- worker threads
\* the thread is inside the destructor and cannot return to its loop
Busy(t) == dtorThread = t /\ pc # "destroyed"

\* the worker's loop takes the task at the head of its queue
CanRun(t, kind) ==
  /\ pc # "aborted"
  /\ thread[t] = "running"
  /\ ~Busy(t)
  /\ queue[t] # <<>>
  /\ Head(queue[t]).kind = kind

Dequeue(t) == queue' = [queue EXCEPT ![t] = Tail(@)]

\* variant: the task stores nothing under the key
RunJniExitTask_NoRegister(t) ==
  /\ CanRun(t, "jni_exit")
  /\ Dequeue(t)
  /\ IF key = "created"
       THEN UNCHANGED <<tls, pc, abortAt>>
       ELSE /\ Abort("setspecific")
            /\ UNCHANGED tls
  /\ UNCHANGED <<dtorThread, dcheckOn, is_valid, shell, engineAlive, pvAlive,
                 pvFlag, platform_view, key, keyCreates, thread, postLog,
                 detachLog, prioLog, errLog, engineLog, shotCalls, lastShot,
                 lastCall, calls, handle, createCalls,
                 pvCallbacks, rastCallbacks>>
  /\ UNCHANGED holderVars

\* jni_exit_task: FXL_CHECK(pthread_setspecific(key, (void*)1) == 0)
RunJniExitTask(t) ==
  /\ CanRun(t, "jni_exit")
  /\ Dequeue(t)
  /\ IF key = "created"
       THEN /\ tls' = [tls EXCEPT ![t] = 1]
            /\ UNCHANGED <<pc, abortAt>>
       ELSE /\ Abort("setspecific")
            /\ UNCHANGED tls
  /\ UNCHANGED <<dtorThread, dcheckOn, is_valid, shell, engineAlive, pvAlive,
                 pvFlag, platform_view, key, keyCreates, thread, postLog,
                 detachLog, prioLog, errLog, engineLog, shotCalls, lastShot,
                 lastCall, calls, handle, createCalls,
                 pvCallbacks, rastCallbacks>>
  /\ UNCHANGED holderVars

Request(level, ok) == [level |-> level, ok |-> ok]

\* requests the GPU tuning task makes when the OS answers primaryOk and
\* fallbackOk
GpuPriorityRequests_AlwaysFallback(primaryOk, fallbackOk) ==
  <<Request(GpuPrimaryPriority, primaryOk),
    Request(GpuFallbackPriority, fallbackOk)>>

GpuPriorityRequests(primaryOk, fallbackOk) ==
  IF primaryOk
    THEN <<Request(GpuPrimaryPriority, TRUE)>>
    ELSE <<Request(GpuPrimaryPriority, FALSE),
           Request(GpuFallbackPriority, fallbackOk)>>

\* the task posted to the GPU runner: setpriority(-5), else setpriority(-2),
\* else log
RunGpuPriorityTask(t) ==
  /\ CanRun(t, "gpu_priority")
  /\ Dequeue(t)
  /\ \E primaryOk \in BOOLEAN, fallbackOk \in BOOLEAN :
       LET reqs == GpuPriorityRequests(primaryOk, fallbackOk) IN
         /\ prioLog' = [prioLog EXCEPT ![t] = @ \o reqs]
         /\ errLog' = IF reqs[Len(reqs)].ok
                        THEN errLog
                        ELSE LogError("gpu_priority")
  /\ UNCHANGED <<pc, dtorThread, abortAt, dcheckOn, is_valid, shell,
                 engineAlive, pvAlive, pvFlag, platform_view, key, keyCreates,
                 thread, postLog, tls, detachLog, engineLog, shotCalls,
                 lastShot, lastCall, calls, handle,
                 createCalls, pvCallbacks, rastCallbacks>>
  /\ UNCHANGED holderVars

\* the task posted to the UI runner: setpriority(-1), else log
RunUiPriorityTask(t) ==
  /\ CanRun(t, "ui_priority")
  /\ Dequeue(t)
  /\ \E ok \in BOOLEAN :
       /\ prioLog' = [prioLog EXCEPT ![t] = Append(@, Request(UiPriority, ok))]
       /\ errLog' = IF ok THEN errLog ELSE LogError("ui_priority")
  /\ UNCHANGED <<pc, dtorThread, abortAt, dcheckOn, is_valid, shell,
                 engineAlive, pvAlive, pvFlag, platform_view, key, keyCreates,
                 thread, postLog, tls, detachLog, engineLog, shotCalls,
                 lastShot, lastCall, calls, handle,
                 createCalls, pvCallbacks, rastCallbacks>>
  /\ UNCHANGED holderVars

EngineCall(op, task, t) ==
  [op |-> op, arg |-> task.arg, id |-> task.id, thread |-> t]

\* the task posted by Launch: if (engine) if (!engine->Run(config)) log
RunLaunchTask_MarksInvalid(t) ==
  /\ CanRun(t, "launch")
  /\ Dequeue(t)
  /\ IF engineAlive
       THEN \E ok \in BOOLEAN :
              /\ engineLog' =
                   Append(engineLog, EngineCall("Run", Head(queue[t]), t))
              /\ errLog' = IF ok THEN errLog ELSE LogError("launch")
              /\ is_valid' = (is_valid /\ ok)
       ELSE UNCHANGED <<engineLog, errLog, is_valid>>
  /\ UNCHANGED <<pc, dtorThread, abortAt, dcheckOn, shell, engineAlive,
                 pvAlive, pvFlag, platform_view, key, keyCreates, thread,
                 postLog, tls, detachLog, prioLog, shotCalls, lastShot,
                 lastCall, calls, handle, createCalls,
                 pvCallbacks, rastCallbacks>>
  /\ UNCHANGED holderVars

\* variant: a failed start is fatal instead of logged
RunLaunchTask_AbortsOnFailure(t) ==
  /\ CanRun(t, "launch")
  /\ Dequeue(t)
  /\ IF engineAlive
       THEN \E ok \in BOOLEAN :
              /\ engineLog' =
                   Append(engineLog, EngineCall("Run", Head(queue[t]), t))
              /\ errLog' = IF ok THEN errLog ELSE LogError("launch")
              /\ IF ok THEN UNCHANGED <<pc, abortAt>> ELSE Abort("launch")
       ELSE UNCHANGED <<engineLog, errLog, pc, abortAt>>
  /\ UNCHANGED <<dtorThread, dcheckOn, is_valid, shell,
                 engineAlive, pvAlive, pvFlag, platform_view, key, keyCreates,
                 thread, postLog, tls, detachLog, prioLog, shotCalls,
                 lastShot, lastCall, calls, handle,
                 createCalls, pvCallbacks, rastCallbacks>>
  /\ UNCHANGED holderVars

RunLaunchTask(t) ==
  /\ CanRun(t, "launch")
  /\ Dequeue(t)
  /\ IF engineAlive
       THEN \E ok \in BOOLEAN :
              /\ engineLog' =
                   Append(engineLog, EngineCall("Run", Head(queue[t]), t))
              /\ errLog' = IF ok THEN errLog ELSE LogError("launch")
       ELSE UNCHANGED <<engineLog, errLog>>
  /\ UNCHANGED <<pc, dtorThread, abortAt, dcheckOn, is_valid, shell,
                 engineAlive, pvAlive, pvFlag, platform_view, key, keyCreates,
                 thread, postLog, tls, detachLog, prioLog, shotCalls,
                 lastShot, lastCall, calls, handle,
                 createCalls, pvCallbacks, rastCallbacks>>
  /\ UNCHANGED holderVars

\* variant: the task uses its engine handle without testing it
RunMetricsTask_NoEngineCheck(t) ==
  /\ CanRun(t, "metrics")
  /\ Dequeue(t)
  /\ engineLog' = Append(engineLog,
                     EngineCall("SetViewportMetrics", Head(queue[t]), t))
  /\ UNCHANGED <<pc, dtorThread, abortAt, dcheckOn, is_valid, shell,
                 engineAlive, pvAlive, pvFlag, platform_view, key, keyCreates,
                 thread, postLog, tls, detachLog, prioLog, errLog, shotCalls,
                 lastShot, lastCall, calls, handle,
                 createCalls, pvCallbacks, rastCallbacks>>
  /\ UNCHANGED holderVars

\* the task posted by SetViewportMetrics
RunMetricsTask(t) ==
  /\ CanRun(t, "metrics")
  /\ Dequeue(t)
  /\ IF engineAlive
       THEN engineLog' = Append(engineLog,
                           EngineCall("SetViewportMetrics", Head(queue[t]), t))
       ELSE UNCHANGED engineLog
  /\ UNCHANGED <<pc, dtorThread, abortAt, dcheckOn, is_valid, shell,
                 engineAlive, pvAlive, pvFlag, platform_view, key, keyCreates,
                 thread, postLog, tls, detachLog, prioLog, errLog, shotCalls,
                 lastShot, lastCall, calls, handle,
                 createCalls, pvCallbacks, rastCallbacks>>
  /\ UNCHANGED holderVars

\* the task posted by DispatchPointerDataPacket
RunPointerTask(t) ==
  /\ CanRun(t, "pointer")
  /\ Dequeue(t)
  /\ IF engineAlive
       THEN engineLog' = Append(engineLog,
                   EngineCall("DispatchPointerDataPacket", Head(queue[t]), t))
       ELSE UNCHANGED engineLog
  /\ UNCHANGED <<pc, dtorThread, abortAt, dcheckOn, is_valid, shell,
                 engineAlive, pvAlive, pvFlag, platform_view, key, keyCreates,
                 thread, postLog, tls, detachLog, prioLog, errLog, shotCalls,
                 lastShot, lastCall, calls, handle,
                 createCalls, pvCallbacks, rastCallbacks>>
  /\ UNCHANGED holderVars

\* the loop reaches its stop signal: the thread exits, what is still queued
\* is dropped, and the key's destructor (ThreadDestructCallback) runs on the
\* exiting thread if the thread stored a value under the key
RunTerminate(t) ==
  /\ CanRun(t, "terminate")
  /\ queue' = [queue EXCEPT ![t] = <<>>]
  /\ thread' = [thread EXCEPT ![t] = "exited"]
  /\ IF key = "created" /\ tls[t] # 0
       THEN /\ detachLog' = Append(detachLog, t)
            /\ tls' = [tls EXCEPT ![t] = 0]
       ELSE UNCHANGED <<detachLog, tls>>
  /\ UNCHANGED <<pc, dtorThread, abortAt, dcheckOn, is_valid, shell,
                 engineAlive, pvAlive, pvFlag, platform_view, key, keyCreates,
                 postLog, prioLog, errLog, engineLog, shotCalls, lastShot,
                 lastCall, calls, handle, createCalls,
                 pvCallbacks, rastCallbacks>>
  /\ UNCHANGED holderVars

\* ----------------------------------------------------------- destructor
\* ~AndroidShellHolder is entered on thread th
DtorBegin(th) ==
  /\ pc = "live"
  /\ CanBeCaller(th)
  /\ dtorThread' = th
  /\ pc' = DtorOrder[1]
  /\ UNCHANGED <<abortAt, dcheckOn, is_valid, shell, engineAlive, pvAlive,
                 pvFlag, platform_view, key, keyCreates, thread, queue,
                 postLog, tls, detachLog, prioLog, errLog, engineLog,
                 shotCalls, lastShot, lastCall, calls, handle, createCalls,
                 pvCallbacks, rastCallbacks>>
  /\ UNCHANGED holderVars

ShellHasLiveHandles == shell = "alive" /\ (pvFlag \/ engineAlive)

\* shell_.reset(), first half: the Shell's members invalidate the control
\* blocks of their weak handles
DtorShellInvalidate ==
  /\ pc = "shell_reset"
  /\ ShellHasLiveHandles
  /\ pvFlag' = FALSE
  /\ engineAlive' = FALSE
  /\ UNCHANGED <<pc, dtorThread, abortAt, dcheckOn, is_valid, shell, pvAlive,
                 platform_view, key, keyCreates, thread, queue, postLog, tls,
                 detachLog, prioLog, errLog, engineLog, shotCalls, lastShot,
                 lastCall, calls, handle, createCalls,
                 pvCallbacks, rastCallbacks>>
  /\ UNCHANGED holderVars

\* shell_.reset(), second half: the Shell and what it owns are released
DtorShellRelease ==
  /\ pc = "shell_reset"
  /\ ~ShellHasLiveHandles
  /\ pvAlive' = FALSE
  /\ shell' = "null"
  /\ pc' = After(DtorOrder, pc)
  /\ UNCHANGED <<dtorThread, abortAt, dcheckOn, is_valid, engineAlive, pvFlag,
                 platform_view, key, keyCreates, thread, queue, postLog, tls,
                 detachLog, prioLog, errLog, engineLog, shotCalls, lastShot,
                 lastCall, calls, handle, createCalls,
                 pvCallbacks, rastCallbacks>>
  /\ UNCHANGED holderVars

\* thread_host_.Reset(): every worker loop is told to stop
DtorThreadHostReset ==
  /\ pc = "thread_host_reset"
  /\ queue' = [q \in Queues |->
                 IF q \in Workers THEN Append(queue[q], TerminateTask)
                                  ELSE queue[q]]
  /\ pc' = After(DtorOrder, pc)
  /\ UNCHANGED <<dtorThread, abortAt, dcheckOn, is_valid, shell, engineAlive,
                 pvAlive, pvFlag, platform_view, key, keyCreates, thread,
                 postLog, tls, detachLog, prioLog, errLog, engineLog,
                 shotCalls, lastShot, lastCall, calls, handle, createCalls,
                 pvCallbacks, rastCallbacks>>
  /\ UNCHANGED holderVars

\* thread_host_.Reset(): the caller blocks until every worker has exited
DtorJoin ==
  /\ pc = "thread_host_join"
  /\ \A t \in Workers : thread[t] = "exited"
  /\ pc' = After(DtorOrder, pc)
  /\ UNCHANGED <<dtorThread, abortAt, dcheckOn, is_valid, shell, engineAlive,
                 pvAlive, pvFlag, platform_view, key, keyCreates, thread,
                 queue, postLog, tls, detachLog, prioLog, errLog, engineLog,
                 shotCalls, lastShot, lastCall, calls, handle, createCalls,
                 pvCallbacks, rastCallbacks>>
  /\ UNCHANGED holderVars

\* FXL_CHECK(pthread_key_delete(thread_destruct_key_) == 0)
DtorKeyDelete ==
  /\ pc = "key_delete"
  /\ IF key = "created"
       THEN /\ key' = "deleted"
            /\ pc' = After(DtorOrder, pc)
            /\ UNCHANGED abortAt
       ELSE /\ Abort("key_delete")
            /\ UNCHANGED key
  /\ UNCHANGED <<dtorThread, dcheckOn, is_valid, shell, engineAlive, pvAlive,
                 pvFlag, platform_view, keyCreates, thread, queue, postLog,
                 tls, detachLog, prioLog, errLog, engineLog, shotCalls,
                 lastShot, lastCall, calls, handle,
                 createCalls, pvCallbacks, rastCallbacks>>
  /\ UNCHANGED holderVars

\* ---------------------------------------- two orchestrators, one process
\* The statements of the constructor and of the destructor that touch the
\* thread-exit key or the workers, for each of two orchestrators that the
\* host constructs and destroys in any order and overlap.
HolderCtorOrder == <<"key_create", "thread_host", "post_exit_ui",
                     "post_exit_gpu", "live">>
HolderDtorOrder == <<"thread_host_reset", "thread_host_join", "key_delete",
                     "destroyed">>

HolderTask(kind, k) == [kind |-> kind, key |-> k]

\* a failed FXL_CHECK ends the process, and with it both orchestrators
ProcessAborted == \E h \in Holders : hpc[h] = "aborted"

HolderStep(h, order) ==
  /\ ~ProcessAborted
  /\ hpc' = [hpc EXCEPT ![h] = After(order, hpc[h])]

HolderAbort(h) == hpc' = [hpc EXCEPT ![h] = "aborted"]

\* variant: one key for the whole process, created by the first constructor
HolderKeyCreate_SharedKey(h) ==
  /\ hpc[h] = "key_create"
  /\ \/ /\ keyTable = {}
        /\ \E k \in KeyIds :
             /\ keyTable' = {k}
             /\ hkey' = [hkey EXCEPT ![h] = k]
        /\ HolderStep(h, HolderCtorOrder)
     \/ /\ keyTable # {}
        /\ \E k \in keyTable : hkey' = [hkey EXCEPT ![h] = k]
        /\ HolderStep(h, HolderCtorOrder)
        /\ UNCHANGED keyTable
     \/ /\ ~ProcessAborted
        /\ HolderAbort(h)
        /\ UNCHANGED <<keyTable, hkey>>
  /\ UNCHANGED <<hthread, hqueue, hslot, hdetach>>
  /\ UNCHANGED shellVars

\* FXL_CHECK(pthread_key_create(&thread_destruct_key_, ...) == 0):
\* the process hands out a key that is not allocated, holding no value in
\* any thread, or the call fails
HolderKeyCreate(h) ==
  /\ hpc[h] = "key_create"
  /\ \/ /\ \E k \in KeyIds \ keyTable :
             /\ keyTable' = keyTable \cup {k}
             /\ hkey' = [hkey EXCEPT ![h] = k]
             /\ hslot' = [g \in Holders |-> [t \in Workers |->
                            [hslot[g][t] EXCEPT ![k] = 0]]]
        /\ HolderStep(h, HolderCtorOrder)
     \/ /\ ~ProcessAborted
        /\ HolderAbort(h)
        /\ UNCHANGED <<keyTable, hkey, hslot>>
  /\ UNCHANGED <<hthread, hqueue, hdetach>>
  /\ UNCHANGED shellVars

\* thread_host_ = {label, UI | GPU | IO}
HolderThreadHost(h) ==
  /\ hpc[h] = "thread_host"
  /\ hthread' = [hthread EXCEPT ![h] = [t \in Workers |-> "running"]]
  /\ HolderStep(h, HolderCtorOrder)
  /\ UNCHANGED <<keyTable, hkey, hqueue, hslot, hdetach>>
  /\ UNCHANGED shellVars

\* jni_exit_task captures key = thread_destruct_key_ by value and is posted
\* to the UI runner
HolderPostExitUI(h) ==
  /\ hpc[h] = "post_exit_ui"
  /\ hqueue' = [hqueue EXCEPT ![h]["UI"] =
                  Append(@, HolderTask("jni_exit", hkey[h]))]
  /\ HolderStep(h, HolderCtorOrder)
  /\ UNCHANGED <<keyTable, hkey, hthread, hslot, hdetach>>
  /\ UNCHANGED shellVars

\* the same task is posted to the GPU runner; what the constructor does
\* after it touches neither the key nor the threads' values
HolderPostExitGPU(h) ==
  /\ hpc[h] = "post_exit_gpu"
  /\ hqueue' = [hqueue EXCEPT ![h]["GPU"] =
                  Append(@, HolderTask("jni_exit", hkey[h]))]
  /\ HolderStep(h, HolderCtorOrder)
  /\ UNCHANGED <<keyTable, hkey, hthread, hslot, hdetach>>
  /\ UNCHANGED shellVars

HolderCanRun(h, t, kind) ==
  /\ ~ProcessAborted
  /\ hthread[h][t] = "running"
  /\ hqueue[h][t] # <<>>
  /\ Head(hqueue[h][t]).kind = kind

\* jni_exit_task: FXL_CHECK(pthread_setspecific(key, (void*)1) == 0)
HolderRunJniExitTask(h, t) ==
  /\ HolderCanRun(h, t, "jni_exit")
  /\ hqueue' = [hqueue EXCEPT ![h][t] = Tail(@)]
  /\ IF Head(hqueue[h][t]).key \in keyTable
       THEN /\ hslot' = [hslot EXCEPT
                           ![h][t][Head(hqueue[h][t]).key] = 1]
            /\ UNCHANGED hpc
       ELSE /\ HolderAbort(h)
            /\ UNCHANGED hslot
  /\ UNCHANGED <<keyTable, hkey, hthread, hdetach>>
  /\ UNCHANGED shellVars

\* the keys whose destructor runs when worker t of h exits
HooksAtExit(h, t) == {k \in keyTable : hslot[h][t][k] # 0}

\* the worker exits: ThreadDestructCallback runs once for every allocated
\* key the thread holds a value under
HolderRunTerminate(h, t) ==
  /\ HolderCanRun(h, t, "terminate")
  /\ hqueue' = [hqueue EXCEPT ![h][t] = <<>>]
  /\ hthread' = [hthread EXCEPT ![h][t] = "exited"]
  /\ hdetach' = [hdetach EXCEPT
                   ![h][t] = @ + Cardinality(HooksAtExit(h, t))]
  /\ hslot' = [hslot EXCEPT ![h][t] =
                 [k \in KeyIds |-> IF k \in keyTable THEN 0 ELSE @[k]]]
  /\ UNCHANGED <<keyTable, hpc, hkey>>
  /\ UNCHANGED shellVars

\* ~AndroidShellHolder is entered on the platform thread; shell_.reset()
\* touches neither the key nor the workers
HolderDtorBegin(h) ==
  /\ ~ProcessAborted
  /\ hpc[h] = "live"
  /\ hpc' = [hpc EXCEPT ![h] = HolderDtorOrder[1]]
  /\ UNCHANGED <<keyTable, hkey, hthread, hqueue, hslot, hdetach>>
  /\ UNCHANGED shellVars

\* thread_host_.Reset(): every worker loop is told to stop
HolderThreadHostReset(h) ==
  /\ hpc[h] = "thread_host_reset"
  /\ hqueue' = [hqueue EXCEPT ![h] =
                  [t \in Workers |->
                     Append(hqueue[h][t], HolderTask("terminate", "none"))]]
  /\ HolderStep(h, HolderDtorOrder)
  /\ UNCHANGED <<keyTable, hkey, hthread, hslot, hdetach>>
  /\ UNCHANGED shellVars

\* thread_host_.Reset(): the caller blocks until every worker has exited
HolderJoin(h) ==
  /\ hpc[h] = "thread_host_join"
  /\ \A t \in Workers : hthread[h][t] = "exited"
  /\ HolderStep(h, HolderDtorOrder)
  /\ UNCHANGED <<keyTable, hkey, hthread, hqueue, hslot, hdetach>>
  /\ UNCHANGED shellVars

\* FXL_CHECK(pthread_key_delete(thread_destruct_key_) == 0): the key is
\* released; values threads still hold under it stay where they are
HolderKeyDelete(h) ==
  /\ hpc[h] = "key_delete"
  /\ ~ProcessAborted
  /\ IF hkey[h] \in keyTable
       THEN /\ keyTable' = keyTable \ {hkey[h]}
            /\ hpc' = [hpc EXCEPT ![h] = After(HolderDtorOrder, hpc[h])]
       ELSE /\ HolderAbort(h)
            /\ UNCHANGED keyTable
  /\ UNCHANGED <<hkey, hthread, hqueue, hslot, hdetach>>
  /\ UNCHANGED shellVars

\* ------------------------------------------------------- specification
Next ==
  \/ CtorKeyCreate
  \/ CtorThreadHost
  \/ CtorPostExitUI
  \/ CtorPostExitGPU
  \/ CtorShellCreate
  \/ CtorCheckValid
  \/ CtorPostPriorityGPU
  \/ CtorPostPriorityUI
  \/ \E config \in Configs : Launch(config)
  \/ \E metrics \in MetricsValues : SetViewportMetrics(metrics)
  \/ \E packet \in Packets : DispatchPointerDataPacket(packet)
  \/ \E type \in ScreenshotTypes, base64_encode \in BOOLEAN,
        caller \in ScreenshotCallers :
       Screenshot(type, base64_encode, caller)
  \/ GetPlatformView
  \/ QueryIsValid
  \/ GetSettings
  \/ \E t \in Workers : RunJniExitTask(t)
  \/ \E t \in Workers : RunGpuPriorityTask(t)
  \/ \E t \in Workers : RunUiPriorityTask(t)
  \/ \E t \in Workers : RunLaunchTask(t)
  \/ \E t \in Workers : RunMetricsTask(t)
  \/ \E t \in Workers : RunPointerTask(t)
  \/ \E t \in Workers : RunTerminate(t)
  \/ \E th \in Queues : DtorBegin(th)
  \/ DtorShellInvalidate
  \/ DtorShellRelease
  \/ DtorThreadHostReset
  \/ DtorJoin
  \/ DtorKeyDelete

Spec == Init /\ [][Next]_vars

HolderNext ==
  \/ \E h \in Holders : HolderKeyCreate(h)
  \/ \E h \in Holders : HolderThreadHost(h)
  \/ \E h \in Holders : HolderPostExitUI(h)
  \/ \E h \in Holders : HolderPostExitGPU(h)
  \/ \E h \in Holders, t \in Workers : HolderRunJniExitTask(h, t)
  \/ \E h \in Holders, t \in Workers : HolderRunTerminate(h, t)
  \/ \E h \in Holders : HolderDtorBegin(h)
  \/ \E h \in Holders : HolderThreadHostReset(h)
  \/ \E h \in Holders : HolderJoin(h)
  \/ \E h \in Holders : HolderKeyDelete(h)

\* two orchestrators in one process
HolderSpec == Init /\ [][HolderNext]_vars

\* ------------------------------------------------------------- claims
Detaches(t) == Cardinality({i \in DOMAIN detachLog : detachLog[i] = t})
PostedOfKind(q, kind) ==
  Cardinality({i \in DOMAIN postLog[q] : postLog[q][i].kind = kind})
Queued(task) == \E q \in Queues : \E i \in DOMAIN queue[q] : queue[q][i] = task
RunsOf(task) ==
  {i \in DOMAIN engineLog :
     engineLog[i].op = "Run" /\ engineLog[i].id = task.id}
LaunchesPosted ==
  {task \in UNION {{postLog[q][i] : i \in DOMAIN postLog[q]} : q \in Queues} :
     task.kind = "launch"}
ConstructorPosts == [q \in Queues |->
                       IF q \in {"UI", "GPU"} THEN <<JniExitTask>> ELSE <<>>]
CallStep == calls' = calls + 1
\* the constructor has executed its statement p
CtorExecuted(p) ==
  IF InCtor THEN IndexOf(CtorOrder, pc) > IndexOf(CtorOrder, p)
            ELSE abortAt # "key_create"

\* C1: on an Invalid orchestrator a call to Launch, SetViewportMetrics,
\* DispatchPointerDataPacket or Screenshot posts no task to any queue and
\* changes no orchestrator or engine state, and Screenshot returns the empty
\* result (null data, empty size) without reaching the Shell.
C1_InvalidCallsAreNoOps ==
  [][(pc = "live" /\ ~is_valid /\ CallStep /\
      lastCall'.op \in {"Launch", "SetViewportMetrics",
                        "DispatchPointerDataPacket", "Screenshot"})
     => /\ UNCHANGED <<pc, abortAt, is_valid, shell, engineAlive, pvAlive,
                       pvFlag, platform_view, key, keyCreates, thread, queue,
                       postLog, tls, detachLog, prioLog, errLog, engineLog,
                       shotCalls, handle, createCalls, pvCallbacks,
                       rastCallbacks>>
        /\ postLog = ConstructorPosts
        /\ lastShot' = NoShot
        /\ (lastCall'.op = "Screenshot"
              => lastCall'.result = EmptyScreenshot)]_vars

C1_Witness ==
  /\ pc = "live"
  /\ ~is_valid
  /\ calls >= 2
  /\ lastCall.op = "Screenshot"
  /\ lastCall.result = EmptyScreenshot

\* C2: when Shell::Create returns null the constructor does not abort or
\* fail an assertion; it returns with the orchestrator Invalid.
C2_NullShellIsRecoverable ==
  (createCalls = 1 /\ shell = "null" /\ dtorThread = "none")
    => (pc # "aborted" /\ (~InCtor => ~is_valid))

\* C3: the thread-exit key exists whenever a worker thread is alive: it is
\* created once, before the workers start; it is released only after the
\* Shell has been released and every worker has exited with its exit hook
\* done; after destruction no worker is alive.
C3_KeyOutlivesWorkers ==
  /\ keyCreates <= 1
  /\ (\E t \in Workers : thread[t] = "running") => key = "created"
  /\ key = "deleted" =>
       (shell = "null" /\ \A t \in Workers : thread[t] = "exited" /\ tls[t] = 0)
  /\ pc = "destroyed" =>
       (key = "deleted" /\ \A t \in Workers : thread[t] = "exited")

C3_Witness ==
  /\ pc = "destroyed"
  /\ is_valid
  /\ key = "deleted"
  /\ Detaches("UI") = 1

\* C4 as stated: one cleanup task is posted to each of the UI, GPU and IO
\* workers and the detach hook runs exactly once on each of them, when it
\* terminates.
C4_CleanupOnEveryWorker ==
  \A t \in Workers :
    /\ thread[t] = "exited" => Detaches(t) = 1
    /\ thread[t] # "exited" => Detaches(t) = 0
    /\ CtorExecuted("post_exit_gpu") => PostedOfKind(t, "jni_exit") = 1

\* C4 amended: one cleanup task is posted to the UI queue and one to the GPU
\* queue and none to the IO or platform queue; on the UI and on the GPU
\* thread the detach hook runs exactly once, when that thread terminates and
\* not before; it never runs on the IO thread.
C4_CleanupOnUiAndGpu ==
  /\ \A t \in {"UI", "GPU"} :
       /\ thread[t] = "exited" => Detaches(t) = 1
       /\ thread[t] # "exited" => Detaches(t) = 0
       /\ CtorExecuted("post_exit_gpu") => PostedOfKind(t, "jni_exit") = 1
  /\ PostedOfKind("IO", "jni_exit") = 0
  /\ PostedOfKind("Platform", "jni_exit") = 0
  /\ Detaches("IO") = 0
  /\ Len(detachLog) <= 2

C4_Witness ==
  /\ \A t \in Workers : thread[t] = "exited"
  /\ Detaches("UI") = 1
  /\ Detaches("GPU") = 1
  /\ Detaches("IO") = 0

\* C5: validity is fixed when the constructor returns: once false it stays
\* false, once true it stays true until teardown begins, whatever public
\* operation is called and whatever task runs; IsValid() returns it; the
\* Shell is created once and a Valid orchestrator holds exactly that one.
C5_ValidityIsImmutable ==
  /\ [](/\ createCalls <= 1
        /\ ~InCtor /\ pc # "aborted" => createCalls = 1
        /\ pc = "live" => (is_valid <=> shell = "alive")
        /\ lastCall.op = "IsValid" =>
             lastCall.result.data = (IF is_valid THEN "true" ELSE "false"))
  /\ [][/\ (~InCtor /\ ~is_valid) => ~is_valid'
        /\ (pc = "live" /\ is_valid) => is_valid']_vars

C5_Witness ==
  /\ pc = "live"
  /\ is_valid
  /\ lastCall.op = "IsValid"
  /\ lastCall.result.data = "true"
  /\ errLog["launch"] = 1

\* C6: on a Valid orchestrator a Launch(config) call makes Engine::Run
\* happen exactly once, on the UI thread, with that config: never twice,
\* never elsewhere, and once the posted task has left the queue of a live
\* engine the run has happened.
C6_LaunchRunsOnceOnUi ==
  /\ \A i \in DOMAIN engineLog :
       engineLog[i].op = "Run" =>
         \E task \in LaunchesPosted :
           /\ task.id = engineLog[i].id
           /\ task.arg = engineLog[i].arg
           /\ engineLog[i].thread = "UI"
  /\ \A task \in LaunchesPosted :
       /\ Cardinality(RunsOf(task)) <= 1
       /\ (engineAlive /\ ~Queued(task)) => Cardinality(RunsOf(task)) = 1

C6_Witness ==
  /\ pc = "live"
  /\ is_valid
  /\ Cardinality(LaunchesPosted) = 1
  /\ \E task \in LaunchesPosted :
       /\ task.arg = "cfgB"
       /\ engineLog = <<EngineCall("Run", task, "UI")>>

\* C7: a weak platform-view handle obtained from GetPlatformView before the
\* Shell is destroyed gives the live component until destruction begins and
\* nothing once destruction has completed; at no moment does it give a
\* destroyed component, and once it gives nothing it never gives a
\* component again.
C7_WeakHandleNeverStale ==
  /\ [](handle # "none" =>
          /\ DerefOutcome(handle) # "stale"
          /\ (pc = "live" /\ is_valid) => DerefOutcome(handle) = "live"
          /\ pc = "destroyed" => DerefOutcome(handle) = "empty")
  /\ [][(handle # "none" /\ DerefOutcome(handle) = "empty")
          => DerefOutcome(handle)' = "empty"]_vars

C7_Witness ==
  /\ pc = "destroyed"
  /\ is_valid
  /\ handle = "pv"
  /\ DerefOutcome(handle) = "empty"

\* C8 as stated: whichever thread runs the destructor, destruction
\* completes with every worker joined and the exit hook run exactly once on
\* each of the UI, GPU and IO threads.
C8_CleanupOnceWhoeverDestroys ==
  pc = "destroyed" =>
    \A t \in Workers : thread[t] = "exited" /\ Detaches(t) = 1

\* C8 amended: a destructor run on the platform thread is never blocked
\* for good and completes with every worker joined, the exit hook having run
\* exactly once on the UI thread and once on the GPU thread and never on the
\* IO thread (which registered none); a destructor run on one of the
\* orchestrator's own worker threads does not complete: that worker never
\* leaves the destructor, so it is never joined and the key is never
\* released.
C8_CleanupOnceFromPlatformThread ==
  /\ pc = "destroyed" =>
       /\ dtorThread = "Platform"
       /\ \A t \in Workers : thread[t] = "exited"
       /\ Detaches("UI") = 1
       /\ Detaches("GPU") = 1
       /\ Detaches("IO") = 0
  /\ (dtorThread = "Platform" /\ pc = "thread_host_join") =>
       \A t \in Workers :
         \/ thread[t] = "exited"
         \/ /\ thread[t] = "running"
            /\ queue[t] # <<>>
            /\ queue[t][Len(queue[t])] = TerminateTask
  /\ dtorThread \in Workers =>
       /\ thread[dtorThread] = "running"
       /\ key = "created"
       /\ pc # "destroyed"

C8_Witness ==
  /\ pc = "destroyed"
  /\ dtorThread = "Platform"
  /\ calls >= 1
  /\ Detaches("UI") = 1
  /\ Detaches("GPU") = 1

\* C9: the GPU tuning task requests the fallback level exactly once if the
\* primary level was rejected and never otherwise; when both are rejected
\* one error is logged and the orchestrator, already constructed, stays
\* Valid.
C9_GpuFallbackOnlyAfterRejection ==
  /\ prioLog["GPU"] \in
       {<<>>,
        <<Request(GpuPrimaryPriority, TRUE)>>,
        <<Request(GpuPrimaryPriority, FALSE),
          Request(GpuFallbackPriority, TRUE)>>,
        <<Request(GpuPrimaryPriority, FALSE),
          Request(GpuFallbackPriority, FALSE)>>}
  /\ errLog["gpu_priority"] =
       (IF /\ Len(prioLog["GPU"]) = 2
           /\ ~prioLog["GPU"][2].ok
          THEN 1 ELSE 0)
  /\ prioLog["GPU"] # <<>> => (is_valid /\ pc # "aborted")
  /\ \A t \in Workers \ {"GPU"} :
       \A i \in DOMAIN prioLog[t] : prioLog[t][i].level = UiPriority

C9_Witness ==
  /\ pc = "live"
  /\ is_valid
  /\ Len(prioLog["GPU"]) = 2
  /\ ~prioLog["GPU"][2].ok
  /\ errLog["gpu_priority"] = 1

\* C10: Screenshot on a Valid orchestrator posts nothing, calls
\* Shell::Screenshot once, on the calling thread, with the type and the
\* encode flag it was given, and returns what that call returned; no other
\* public operation calls into the Shell or the Engine on its caller's
\* thread.
C10_ScreenshotIsSynchronous ==
  /\ []((lastCall.op = "Screenshot" /\ is_valid) =>
          lastShot = [type |-> lastCall.type, base64 |-> lastCall.base64,
                      thread |-> lastCall.caller, result |-> lastCall.result])
  /\ [][CallStep =>
          /\ UNCHANGED engineLog
          /\ IF lastCall'.op = "Screenshot"
               THEN /\ UNCHANGED <<queue, postLog>>
                    /\ is_valid => shotCalls' = shotCalls + 1
               ELSE /\ shotCalls' = shotCalls
                    /\ lastShot' = NoShot]_vars

C10_Witness ==
  /\ pc = "live"
  /\ is_valid
  /\ lastCall.op = "Screenshot"
  /\ lastCall.caller = "GPU"
  /\ lastCall.base64
  /\ lastCall.result.data = "image"
  /\ shotCalls = 2

\* C11: the platform-view callback and the rasterizer callback are each
\* invoked exactly once, inside the one Shell::Create call the constructor
\* makes: none before it, none after the constructor has returned; the
\* handle GetPlatformView returns is the one the platform-view callback
\* captured and, on a Valid orchestrator, gives the component it created.
C11_CallbacksOnceDuringCreate ==
  /\ [](/\ createCalls = 0 => (pvCallbacks = 0 /\ rastCallbacks = 0)
        /\ createCalls = 1 => (pvCallbacks = 1 /\ rastCallbacks = 1)
        /\ createCalls <= 1
        /\ (~InCtor /\ abortAt # "key_create") =>
             (createCalls = 1 /\ platform_view = "pv")
        /\ (pc = "live" /\ is_valid) => DerefOutcome(platform_view) = "live"
        /\ handle # "none" => handle = platform_view)
  /\ [][(pvCallbacks' # pvCallbacks \/ rastCallbacks' # rastCallbacks)
          => (pc = "shell_create" /\ createCalls' = createCalls + 1)]_vars

C11_Witness ==
  /\ pc = "live"
  /\ is_valid
  /\ pvCallbacks = 1
  /\ rastCallbacks = 1
  /\ lastCall.op = "GetPlatformView"
  /\ handle = "pv"
  /\ DerefOutcome(handle) = "live"

Pending(q) ==
  SelectSeq(queue[q], LAMBDA task : task.kind # TerminateTask.kind)
IsSuffix(s, w) ==
  Len(s) <= Len(w) /\ SubSeq(w, Len(w) - Len(s) + 1, Len(w)) = s
\* number of posted tasks the loop of q has taken
ExecutedCount(q) == Len(postLog[q]) - Len(Pending(q))
PostRank(task) ==
  IF task.kind = "jni_exit" THEN 1
  ELSE IF task.kind \in {"gpu_priority", "ui_priority"} THEN 2 ELSE 3
ExitCleanupDone(t) == tls[t] = 1 \/ Detaches(t) = 1

\* C13: on the UI and on the GPU queue the constructor's tasks are taken in
\* post order: the exit-cleanup task is posted and runs first, the
\* priority-tuning task second, and the tasks of public operations after
\* both; what a loop has taken is always a prefix of what was posted to it.
C13_ConstructorTasksInPostOrder ==
  /\ [](\A t \in {"UI", "GPU"} :
          LET posted == postLog[t]
              taken == ExecutedCount(t)
          IN /\ \A i \in 1 .. (Len(posted) - 1) :
                  \/ PostRank(posted[i]) < PostRank(posted[i + 1])
                  \/ PostRank(posted[i]) = 3 /\ PostRank(posted[i + 1]) = 3
             /\ IsSuffix(Pending(t), posted)
             /\ taken >= 1 <=> ExitCleanupDone(t)
             /\ prioLog[t] # <<>> => (ExitCleanupDone(t) /\ taken >= 2)
             /\ (is_valid /\ taken >= 2) => prioLog[t] # <<>>)
  /\ [](engineLog # <<>> =>
          (prioLog["UI"] # <<>> /\ ExitCleanupDone("UI")
           /\ ExecutedCount("UI") >= 3))
  /\ [][\A t \in {"UI", "GPU"} :
          ExecutedCount(t)' \in {ExecutedCount(t), ExecutedCount(t) + 1}]_vars

C13_Witness ==
  /\ pc = "live"
  /\ is_valid
  /\ tls["UI"] = 1
  /\ Len(prioLog["UI"]) = 1
  /\ Len(engineLog) = 1
  /\ Len(Pending("UI")) = 1
  /\ tls["GPU"] = 1
  /\ prioLog["GPU"] # <<>>

PublicKinds == {"launch", "metrics", "pointer"}
PostingOps == {"Launch", "SetViewportMetrics", "DispatchPointerDataPacket"}
KindOf(op) ==
  IF op = "Launch" THEN "launch"
  ELSE IF op = "SetViewportMetrics" THEN "metrics" ELSE "pointer"
EngineOpOf(kind) ==
  IF kind = "launch" THEN "Run"
  ELSE IF kind = "metrics" THEN "SetViewportMetrics"
  ELSE "DispatchPointerDataPacket"
\* the tasks public operations posted to the UI queue, in post order
PublicPosts ==
  SelectSeq(postLog["UI"], LAMBDA task : task.kind \in PublicKinds)
\* the engine operation a posted task stands for
Delivery(task) == EngineCall(EngineOpOf(task.kind), task, "UI")
IsPrefix(s, w) == Len(s) <= Len(w) /\ SubSeq(w, 1, Len(s)) = s

\* C14: the engine operations of the Launch, SetViewportMetrics and
\* DispatchPointerDataPacket calls take effect on the UI thread in call
\* order, each with the argument its call was given and each at most once:
\* what has reached the engine is always a prefix of what the calls posted,
\* and all of it once the queue of a live engine has drained.
C14_EngineOpsInCallOrder ==
  /\ [](/\ \A i \in DOMAIN PublicPosts : \A j \in DOMAIN PublicPosts :
             i < j => PublicPosts[i].id < PublicPosts[j].id
        /\ IsPrefix(engineLog, [i \in DOMAIN PublicPosts |->
                                  Delivery(PublicPosts[i])])
        /\ \A i \in DOMAIN engineLog : \A j \in DOMAIN engineLog :
             i # j => engineLog[i].id # engineLog[j].id
        /\ (engineAlive /\ Pending("UI") = <<>> /\ ExecutedCount("UI") >= 2)
             => Len(engineLog) = Len(PublicPosts))
  /\ [][(CallStep /\ is_valid /\ lastCall'.op \in PostingOps) =>
          PublicPosts' = Append(PublicPosts,
                                Task(KindOf(lastCall'.op), lastCall'.arg,
                                     calls'))]_vars

C14_Witness ==
  /\ pc = "live"
  /\ is_valid
  /\ Len(engineLog) = 2
  /\ engineLog[1].op = "DispatchPointerDataPacket"
  /\ engineLog[1].id = 1
  /\ engineLog[2] = [op |-> "Run", arg |-> "cfgB", id |-> 2, thread |-> "UI"]

\* C15: on a Valid orchestrator a call to Launch, SetViewportMetrics or
\* DispatchPointerDataPacket appends exactly one task, carrying the call's
\* argument, to the UI queue and nothing to any other queue; when the call
\* has returned the task is still queued, and the call has changed nothing
\* else: not the engine, not the Shell, not the workers.
C15_OneUiTaskPerCall ==
  [][(CallStep /\ is_valid /\ lastCall'.op \in PostingOps) =>
       LET task == Task(KindOf(lastCall'.op), lastCall'.arg, calls') IN
         /\ queue' = [queue EXCEPT !["UI"] = Append(@, task)]
         /\ postLog' = [postLog EXCEPT !["UI"] = Append(@, task)]
         /\ lastCall'.result = NoResult
         /\ UNCHANGED <<pc, abortAt, is_valid, shell, engineAlive, pvAlive,
                        pvFlag, platform_view, key, thread, tls, detachLog,
                        prioLog, errLog, engineLog, shotCalls, handle>>]_vars

C15_Witness ==
  /\ pc = "live"
  /\ is_valid
  /\ calls = 2
  /\ lastCall.op = "DispatchPointerDataPacket"
  /\ engineLog = <<>>
  /\ queue["GPU"] = <<>>
  /\ Len(PublicPosts) = 2
  /\ queue["UI"][Len(queue["UI"])].kind = "pointer"
  /\ postLog["IO"] = <<>>

\* the constructor has returned to its caller
CtorReturned == ~InCtor /\ abortAt \notin {"key_create", "ctor_dcheck"}

\* C16: a constructor that returns Valid has posted exactly one tuning task
\* to the GPU queue and one to the UI queue, one that returns Invalid has
\* posted none, and no tuning task ever goes to the IO or the platform
\* queue; the UI task makes one request, at its single level, and logs one
\* error if it is rejected; a tuning task, whatever the OS answers, leaves
\* validity alone, aborts nothing and posts nothing.
C16_PriorityTasksIffValid ==
  /\ [](/\ CtorReturned =>
             /\ PostedOfKind("GPU", "gpu_priority") = (IF is_valid THEN 1 ELSE 0)
             /\ PostedOfKind("UI", "ui_priority") = (IF is_valid THEN 1 ELSE 0)
        /\ \A q \in Queues :
             /\ q # "GPU" => PostedOfKind(q, "gpu_priority") = 0
             /\ q # "UI" => PostedOfKind(q, "ui_priority") = 0
        /\ ~is_valid => \A t \in Workers : prioLog[t] = <<>>
        /\ prioLog["IO"] = <<>>
        /\ prioLog["UI"] \in {<<>>, <<Request(UiPriority, TRUE)>>,
                               <<Request(UiPriority, FALSE)>>}
        /\ errLog["ui_priority"] =
             (IF prioLog["UI"] = <<Request(UiPriority, FALSE)>> THEN 1 ELSE 0))
  /\ [][prioLog' # prioLog =>
          UNCHANGED <<pc, abortAt, is_valid, shell, engineAlive, postLog,
                      thread>>]_vars

C16_Witness ==
  /\ pc = "live"
  /\ is_valid
  /\ prioLog["UI"] = <<Request(UiPriority, FALSE)>>
  /\ errLog["ui_priority"] = 1
  /\ errLog["gpu_priority"] = 1
  /\ PostedOfKind("GPU", "gpu_priority") = 1
  /\ lastCall.op = "IsValid"
  /\ lastCall.result.data = "true"

\* C17: a start that fails inside a Launch task is logged there, once, and
\* that is all: the task is gone from the queue and is not queued again,
\* nothing is posted, the thread that called Launch sees nothing, nothing
\* aborts and validity stays; a Launch called after the failure posts a new
\* start task like any other.
C17_LaunchFailureOnlyLogged ==
  /\ [](/\ errLog["launch"] <=
             Cardinality({i \in DOMAIN engineLog : engineLog[i].op = "Run"})
        /\ \A task \in LaunchesPosted : Cardinality(RunsOf(task)) <= 1
        /\ errLog["launch"] > 0 => is_valid)
  /\ [][errLog'["launch"] # errLog["launch"] =>
          /\ errLog'["launch"] = errLog["launch"] + 1
          /\ queue["UI"] # <<>>
          /\ Head(queue["UI"]).kind = "launch"
          /\ queue' = [queue EXCEPT !["UI"] = Tail(@)]
          /\ engineLog' = Append(engineLog, Delivery(Head(queue["UI"])))
          /\ UNCHANGED <<pc, abortAt, is_valid, shell, engineAlive, pvAlive,
                         pvFlag, thread, postLog, lastCall, lastShot, calls,
                         handle, prioLog, tls, detachLog>>]_vars
  /\ [][(CallStep /\ lastCall'.op = "Launch" /\ errLog["launch"] > 0) =>
          PublicPosts' = Append(PublicPosts,
                                Task("launch", lastCall'.arg, calls'))]_vars

C17_Witness ==
  /\ pc = "live"
  /\ is_valid
  /\ errLog["launch"] = 1
  /\ Len(engineLog) = 1
  /\ engineLog[1].op = "Run"
  /\ engineLog[1].id = 1
  /\ calls = 2
  /\ lastCall.op = "Launch"
  /\ Len(Pending("UI")) = 1
  /\ Head(Pending("UI")).id = 2

\* C18: an operation reaches the engine only while the engine exists: a
\* task of Launch, SetViewportMetrics or DispatchPointerDataPacket that the
\* UI loop takes after the destructor has begun releasing the Shell finds
\* its engine handle empty and changes nothing, so from then on nothing
\* reaches the engine, and none of these tasks outlives its thread.
C18_NoTaskTouchesDeadEngine ==
  /\ [](/\ After(DtorOrder, "shell_reset") = pc => ~engineAlive
        /\ (pc \in {"thread_host_join", "key_delete", "destroyed"}) =>
             ~engineAlive
        /\ thread["UI"] = "exited" => Pending("UI") = <<>>)
  /\ [][engineLog' # engineLog =>
          (engineAlive /\ engineAlive' /\ shell = "alive" /\ pvAlive)]_vars
  /\ [][(createCalls = 1 /\ ~engineAlive
          /\ queue["UI"] # <<>> /\ queue'["UI"] = Tail(queue["UI"])
          /\ Head(queue["UI"]).kind \in PublicKinds)
          => UNCHANGED <<engineLog, errLog, shell, engineAlive, pvAlive,
                         pc, abortAt, postLog>>]_vars

C18_Witness ==
  /\ pc = "thread_host_reset"
  /\ is_valid
  /\ ~engineAlive
  /\ Len(PublicPosts) = 2
  /\ Len(engineLog) = 1
  /\ Pending("UI") = <<>>
  /\ thread["UI"] = "running"

\* what an Invalid orchestrator holds and gives back, whichever thread
\* destroys it
InvalidHoldsAndReleases ==
  /\ pc = "live" =>
       /\ \A t \in Workers : thread[t] = "running"
       /\ key = "created"
       /\ shell = "null"
       /\ postLog = ConstructorPosts
  /\ (\E t \in Workers : thread[t] = "exited") =>
       pc \in {"thread_host_join", "key_delete", "destroyed"}
  /\ key = "deleted" =>
       (pc = "destroyed" /\ \A t \in Workers : thread[t] = "exited")
  /\ pc = "destroyed" =>
       /\ key = "deleted"
       /\ Detaches("UI") = 1
       /\ Detaches("GPU") = 1

\* a worker the join waits for will exit: it is running its loop and its
\* stop signal is queued
WillExit(t) ==
  \/ thread[t] = "exited"
  \/ /\ thread[t] = "running"
     /\ ~Busy(t)
     /\ queue[t] # <<>>
     /\ queue[t][Len(queue[t])].kind = "terminate"

\* C19 as stated: an Invalid orchestrator has its three workers running and
\* the exit-cleanup task posted to UI and GPU, and its destructor, whoever
\* runs it, is never stuck in the join and ends with all three workers
\* joined and the key released.
C19_InvalidDestructorTerminates ==
  (CtorReturned /\ ~is_valid) =>
    /\ InvalidHoldsAndReleases
    /\ pc = "thread_host_join" => \A t \in Workers : WillExit(t)

\* C19 amended: an Invalid orchestrator has its three workers running and
\* the exit-cleanup task posted to UI and GPU; its destructor, run on the
\* platform thread, is never stuck in the join and ends with all three
\* workers joined and the key released, its statements in the order
\* Shell, ThreadHost, key; run on one of its own workers it waits in the
\* join for that worker and releases neither the worker nor the key.
C19_InvalidReleasesFromPlatformThread ==
  /\ []((CtorReturned /\ ~is_valid) =>
          /\ InvalidHoldsAndReleases
          /\ (pc = "thread_host_join" /\ dtorThread = "Platform") =>
               \A t \in Workers : WillExit(t)
          /\ dtorThread \in Workers =>
               /\ pc \in {"shell_reset", "thread_host_reset",
                           "thread_host_join"}
               /\ thread[dtorThread] = "running"
               /\ key = "created")
  /\ [][(~is_valid /\ dtorThread' # "none" /\ pc' # pc) =>
          <<pc, pc'>> \in {<<"live", "shell_reset">>,
                           <<"shell_reset", "thread_host_reset">>,
                           <<"thread_host_reset", "thread_host_join">>,
                           <<"thread_host_join", "key_delete">>,
                           <<"key_delete", "destroyed">>}]_vars

C19_Witness ==
  /\ pc = "destroyed"
  /\ ~is_valid
  /\ dtorThread = "Platform"
  /\ calls >= 1
  /\ \A t \in Workers : thread[t] = "exited"
  /\ key = "deleted"
  /\ Detaches("GPU") = 1

\* orchestrator h has created its key and not yet released it
HoldsKey(h) == hkey[h] \in KeyIds /\ hpc[h] \notin {"key_create", "destroyed"}

\* C20: each orchestrator creates one key of its own, not allocated before,
\* and its destructor releases that key and no other; two orchestrators that
\* both hold a key hold different keys; a live worker has a value only
\* under its own orchestrator's key, and that key is still allocated, so no
\* destructor releases a key a live worker of the other orchestrator is
\* registered with; each UI and GPU worker gets its one detach call.
C20_OwnKeyPerOrchestrator ==
  /\ [](/\ \A a \in Holders : \A b \in Holders :
             (a # b /\ HoldsKey(a) /\ HoldsKey(b)) => hkey[a] # hkey[b]
        /\ \A h \in Holders : HoldsKey(h) => hkey[h] \in keyTable
        /\ \A h \in Holders : \A t \in Workers : \A k \in KeyIds :
             (hthread[h][t] = "running" /\ hslot[h][t][k] # 0) =>
               (k = hkey[h] /\ k \in keyTable)
        /\ \A h \in Holders :
             hpc[h] = "destroyed" =>
               /\ hdetach[h]["UI"] = 1
               /\ hdetach[h]["GPU"] = 1
               /\ hdetach[h]["IO"] = 0)
  /\ [][\A k \in keyTable \ keyTable' :
          \E h \in Holders :
            /\ hpc[h] = "key_delete"
            /\ hpc'[h] = "destroyed"
            /\ k = hkey[h]
            /\ keyTable' = keyTable \ {k}
            /\ \A g \in Holders : \A t \in Workers :
                 hthread[g][t] = "running" => hslot[g][t][k] = 0]_vars
  /\ [][\A k \in keyTable' \ keyTable :
          \E h \in Holders :
            /\ hpc[h] = "key_create"
            /\ hkey'[h] = k
            /\ keyTable' = keyTable \cup {k}
            /\ \A g \in Holders \ {h} : hkey'[g] = hkey[g]]_vars

C20_Witness ==
  /\ hpc["h1"] = "destroyed"
  /\ hpc["h2"] = "live"
  /\ hkey["h1"] = "k1"
  /\ hkey["h2"] = "k2"
  /\ keyTable = {"k2"}
  /\ hthread["h2"]["UI"] = "running"
  /\ hslot["h2"]["UI"]["k2"] = 1
  /\ hthread["h2"]["GPU"] = "running"
  /\ hqueue["h2"]["GPU"] # <<>>
  /\ hdetach["h1"]["UI"] = 1

====
